---- MODULE Spec2Model ----
(***************************************************************************)
(* StreamReader (plugkit/js/stream_reader.js): an append-only list of byte *)
(* slices with a running total length, read(length, offset) over the       *)
(* logical concatenation and search(pattern, offset).                      *)
(*                                                                         *)
(* JavaScript values are modelled as follows.                              *)
(*   - a Uint8Array is a sequence of bytes; an argument that may fail the  *)
(*     instanceof test is [isUint8Array, bytes];                           *)
(*   - a numeric argument is [isInteger, n] (Number.isInteger);            *)
(*   - a Payload argument is [isPayload, slices];                          *)
(*   - the outcome of a call is [tag, bytes, pos]: tag is "bytes" (a       *)
(*     Uint8Array was returned), "null", "pos" (a number was returned),    *)
(*     "undefined" (normal return of addSlice/addPayload), or the name of  *)
(*     the exception that was thrown ("TypeError", "RangeError").          *)
(***************************************************************************)
EXTENDS Integers, Sequences, FiniteSets, TLC

\* ---------------------------------------------------------------- bounds
\* most slices a stream holds, longest slice added, most bytes a stream holds
MaxSlices == 2
MaxSliceLen == 2
MaxTotal == 3
\* longest slice inside a payload (a payload holds at most MaxSlices slices)
MaxPayloadSliceLen == 1
\* longest search pattern
MaxPatternLen == 2

\* byte values used for slice contents and patterns
Byte == {0, 1}

\* what an out-of-range index of a typed array evaluates to (undefined);
\* any value that is not a byte
Undefined == -1

\* the value search returns when nothing is found
NotFound == -1

VARIABLES fields, op, args, result

vars == <<fields, op, args, result>>

\* ------------------------------------------------------------ JS helpers
Min(a, b) == IF a < b THEN a ELSE b

Max(a, b) == IF a > b THEN a ELSE b

Result(tag, bytes, pos) == [tag |-> tag, bytes |-> bytes, pos |-> pos]

Throw(error) == Result(error, <<>>, 0)

Thrown(r) == r.tag \in {"TypeError", "RangeError"}

\* typedArray[i], 0-based; undefined outside 0..length-1
Elem(arr, i) == IF i >= 0 /\ i < Len(arr) THEN arr[i + 1] ELSE Undefined

\* %TypedArray%.prototype.slice(start, end): negative indices count from the
\* end, both are clamped to 0..length, the result is empty when end <= start
JsSlice(arr, start, end) ==
  LET len == Len(arr)
      k == IF start < 0 THEN Max(len + start, 0) ELSE Min(start, len)
      final == IF end < 0 THEN Max(len + end, 0) ELSE Min(end, len)
  IN SubSeq(arr, k + 1, final)

\* new Uint8Array(n): n zero bytes
Zeros(n) == [k \in 1..n |-> 0]

\* data.set(slice, dst) when slice fits: overwrite data[dst .. dst+len-1]
SetAt(data, slice, dst) ==
  [k \in 1..Len(data) |->
     IF k > dst /\ k <= dst + Len(slice) THEN slice[k - dst] ELSE data[k]]

\* --------------------------------------------------------- StreamReader
\* constructor: this._fields = { length: 0, slices: [] }
NewFields == [length |-> 0, slices |-> <<>>]

\* addSlice with a dropped "length +=" statement
addSliceNoLength(f, slice) ==
  IF ~slice.isUint8Array
  THEN [thrown |-> TRUE, fields |-> f]
  ELSE [thrown |-> FALSE,
        fields |-> [length |-> f.length,
                    slices |-> Append(f.slices, slice.bytes)]]

\* addSlice(slice) on fields f: whether it threw, and the fields afterwards
addSlice(f, slice) ==
  IF ~slice.isUint8Array
  THEN [thrown |-> TRUE, fields |-> f]
  ELSE [thrown |-> FALSE,
        fields |-> [length |-> f.length + Len(slice.bytes),
                    slices |-> Append(f.slices, slice.bytes)]]

\* the for-of loop of addPayload from element k on: stops at the first
\* addSlice that throws, keeping what was appended before it
RECURSIVE addPayloadLoop(_, _, _)
addPayloadLoop(f, payloadSlices, k) ==
  IF k > Len(payloadSlices)
  THEN [thrown |-> FALSE, fields |-> f]
  ELSE LET r == addSlice(f, payloadSlices[k])
       IN IF r.thrown THEN r ELSE addPayloadLoop(r.fields, payloadSlices, k + 1)

addPayload(f, payload) ==
  IF ~payload.isPayload
  THEN [thrown |-> TRUE, fields |-> f]
  ELSE addPayloadLoop(f, payload.slices, 1)

\* the first scan loop of read and search:
\*   for (; begin < slices.length &&
\*          (beginOffset += slices[begin].length) <= offset; ++begin);
RECURSIVE ScanBegin(_, _, _, _)
ScanBegin(slices, offset, begin, beginOffset) ==
  IF begin < Len(slices)
  THEN LET bo == beginOffset + Len(slices[begin + 1])
       IN IF bo <= offset
          THEN ScanBegin(slices, offset, begin + 1, bo)
          ELSE [begin |-> begin, beginOffset |-> bo]
  ELSE [begin |-> begin, beginOffset |-> beginOffset]

\* the second scan loop of read:
\*   for (; end < slices.length &&
\*          (endOffset += slices[end].length) < offset + length; ++end);
RECURSIVE ScanEnd(_, _, _, _)
ScanEnd(slices, limit, end, endOffset) ==
  IF end < Len(slices)
  THEN LET eo == endOffset + Len(slices[end + 1])
       IN IF eo < limit
          THEN ScanEnd(slices, limit, end + 1, eo)
          ELSE [end |-> end, endOffset |-> eo]
  ELSE [end |-> end, endOffset |-> endOffset]

\* the out-of-range test with a strict comparison
NotAvailableStrict(beginOffset, offset) == beginOffset < offset

\* if (beginOffset <= offset) return null / return -1
NotAvailable(beginOffset, offset) == beginOffset <= offset

\* the copy loop of read, from slice i on:
\*   for (let i = begin; i <= end; ++i) { ... data.set(slice, dst) ... }
\* slices[i] is undefined for i = slices.length: data.set(undefined, dst)
\* throws a TypeError; data.set throws a RangeError when the source does
\* not fit behind dst
RECURSIVE CopyLoop(_, _, _, _, _, _, _, _)
CopyLoop(slices, offset, begin, beginOffset, end, i, dst, data) ==
  IF i > end
  THEN Result("bytes", data, 0)
  ELSE IF i >= Len(slices)
  THEN Throw("TypeError")
  ELSE LET whole == slices[i + 1]
           slice == IF i = begin
                    THEN JsSlice(whole, offset - beginOffset, Len(whole))
                    ELSE whole
       IN IF dst + Len(slice) > Len(data)
          THEN Throw("RangeError")
          ELSE CopyLoop(slices, offset, begin, beginOffset, end, i + 1,
                        dst + Len(slice), SetAt(data, slice, dst))

\* read(length, offset) on the slice list
read(slices, length, offset) ==
  IF ~length.isInteger \/ ~offset.isInteger
  THEN Throw("TypeError")
  ELSE
  LET b == ScanBegin(slices, offset.n, 0, 0)
  IN IF NotAvailable(b.beginOffset, offset.n)
     THEN Result("null", <<>>, 0)
     ELSE IF b.begin >= Len(slices)
     THEN Throw("TypeError")   \* slices[begin] is undefined
     ELSE
     LET begin == b.begin
         beginOffset == b.beginOffset - Len(slices[begin + 1])
         e == ScanEnd(slices, offset.n + length.n, begin, beginOffset)
         end == e.end
         endOffset == e.endOffset
         buflen == Min(length.n, endOffset - beginOffset)
         sliceOffset == offset.n - beginOffset
     IN IF Len(slices[begin + 1]) >= sliceOffset + buflen
        THEN Result("bytes",
                    JsSlice(slices[begin + 1], sliceOffset, sliceOffset + buflen),
                    0)
        ELSE IF buflen < 0
        THEN Throw("RangeError")   \* new Uint8Array(negative)
        ELSE CopyLoop(slices, offset.n, begin, beginOffset, end, begin, 0,
                      Zeros(buflen))

\* the confirmation of a candidate in search:
\*   let equal = true
\*   for (let j = 0; j < window.length; ++j)
\*     if (window[i] !== slice[i]) { equal = false; break }
\* the body indexes with i, the index of the slice, not with j
WindowEqual(window, slice, i) ==
  \A j \in 0..(Len(window) - 1) : Elem(window, i) = Elem(slice, i)

\* the two nested loops of search, at slice i and local position index;
\* front is never advanced past the first scanned slice
RECURSIVE SearchLoop(_, _, _, _, _, _)
SearchLoop(slices, pattern, begin, front, i, index) ==
  IF i >= Len(slices)
  THEN Result("pos", <<>>, NotFound)
  ELSE
  LET slice == slices[i + 1]
  IN IF ~(index < Len(slice) - Len(pattern) + 1)
     THEN SearchLoop(slices, pattern, begin, front, i + 1, 0)
     ELSE IF Elem(slice, index) # pattern[1]
     THEN SearchLoop(slices, pattern, begin, front, i, index + 1)
     ELSE
     LET window == read(slices,
                        [isInteger |-> TRUE, n |-> Len(pattern)],
                        [isInteger |-> TRUE, n |-> front + index])
     IN IF Thrown(window)
        THEN window
        ELSE IF window.tag = "null"
        THEN Throw("TypeError")   \* null.length
        ELSE IF Len(window.bytes) = Len(pattern)
                /\ WindowEqual(window.bytes, slice, i)
        THEN Result("pos", <<>>, front + index + Len(pattern))
        ELSE SearchLoop(slices, pattern, begin, front, i, index + 1)

\* search(pattern, offset) on the slice list
search(slices, pattern, offset) ==
  IF ~pattern.isUint8Array \/ ~offset.isInteger
  THEN Throw("TypeError")
  ELSE IF Len(pattern.bytes) = 0
  THEN Result("pos", <<>>, 0)
  ELSE
  LET b == ScanBegin(slices, offset.n, 0, 0)
  IN IF NotAvailable(b.beginOffset, offset.n)
     THEN Result("pos", <<>>, NotFound)
     ELSE IF b.begin >= Len(slices)
     THEN Throw("TypeError")   \* slices[begin] is undefined
     ELSE
     LET begin == b.begin
         beginOffset == b.beginOffset - Len(slices[begin + 1])
     IN SearchLoop(slices, pattern.bytes, begin, beginOffset, begin,
                   offset.n - beginOffset)

\* ---------------------------------------------------------------- inputs
RECURSIVE SeqsUpTo(_, _)
SeqsUpTo(S, n) ==
  IF n = 0 THEN {<<>>}
  ELSE LET shorter == SeqsUpTo(S, n - 1)
       IN shorter \cup {Append(s, x) : s \in {t \in shorter : Len(t) = n - 1}, x \in S}

\* a value that is not a Uint8Array (a string, a plain array, undefined, ...)
NotUint8Array == [isUint8Array |-> FALSE, bytes |-> <<>>]

Uint8Array(bytes) == [isUint8Array |-> TRUE, bytes |-> bytes]

SliceInputs ==
  {Uint8Array(s) : s \in SeqsUpTo(Byte, MaxSliceLen)} \cup {NotUint8Array}

PayloadSliceInputs ==
  {Uint8Array(s) : s \in SeqsUpTo(Byte, MaxPayloadSliceLen)} \cup {NotUint8Array}

\* a value that is not a Payload object
NotPayload == [isPayload |-> FALSE, slices |-> <<>>]

\* Payload objects of at most n slices
PayloadInputs(n) ==
  {[isPayload |-> TRUE, slices |-> ps] : ps \in SeqsUpTo(PayloadSliceInputs, n)}
    \cup {NotPayload}

PatternInputs ==
  {Uint8Array(s) : s \in SeqsUpTo(Byte, MaxPatternLen)} \cup {NotUint8Array}

Integer(n) == [isInteger |-> TRUE, n |-> n]

\* a number that is not an integer (1.5, NaN), or no number at all
NotInteger == [isInteger |-> FALSE, n |-> 0]

LengthInputs == {Integer(n) : n \in -1..(MaxTotal + 1)} \cup {NotInteger}

OffsetInputs == {Integer(n) : n \in -1..MaxTotal} \cup {NotInteger}

NoArgs == [length |-> Integer(0), offset |-> Integer(0), pattern |-> Uint8Array(<<>>)]

RECURSIVE SumLen(_)
SumLen(slices) ==
  IF slices = <<>> THEN 0 ELSE Len(Head(slices)) + SumLen(Tail(slices))

\* --------------------------------------------------------------- actions
Init ==
  /\ fields = NewFields
  /\ op = "new"
  /\ args = NoArgs
  /\ result = Result("undefined", <<>>, 0)

AddSlice ==
  \E slice \in SliceInputs :
    /\ Len(fields.slices) < MaxSlices
    /\ fields.length + Len(slice.bytes) <= MaxTotal
    /\ LET r == addSlice(fields, slice)
       IN /\ fields' = r.fields
          /\ result' = IF r.thrown THEN Throw("TypeError")
                       ELSE Result("undefined", <<>>, 0)
    /\ op' = "addSlice"
    /\ args' = NoArgs

AddPayload ==
  \E payload \in PayloadInputs(MaxSlices - Len(fields.slices)) :
    /\ fields.length + SumLen([k \in 1..Len(payload.slices) |-> payload.slices[k].bytes]) <= MaxTotal
    /\ LET r == addPayload(fields, payload)
       IN /\ fields' = r.fields
          /\ result' = IF r.thrown THEN Throw("TypeError")
                       ELSE Result("undefined", <<>>, 0)
    /\ op' = "addPayload"
    /\ args' = NoArgs

Read ==
  \E length \in LengthInputs, offset \in OffsetInputs :
    /\ result' = read(fields.slices, length, offset)
    /\ op' = "read"
    /\ args' = [NoArgs EXCEPT !.length = length, !.offset = offset]
    /\ UNCHANGED fields

Search ==
  \E pattern \in PatternInputs, offset \in OffsetInputs :
    /\ result' = search(fields.slices, pattern, offset)
    /\ op' = "search"
    /\ args' = [NoArgs EXCEPT !.pattern = pattern, !.offset = offset]
    /\ UNCHANGED fields

Next == AddSlice \/ AddPayload \/ Read \/ Search

\* every operation of a StreamReader, in any order
Spec == Init /\ [][Next]_vars

NextStore == AddSlice \/ AddPayload \/ Read

\* the slice store and read alone (search changes no field)
SpecStore == Init /\ [][NextStore]_vars

TypeOK ==
  /\ fields.length \in Nat
  /\ Len(fields.slices) <= MaxSlices
  /\ op \in {"new", "addSlice", "addPayload", "read", "search"}
  /\ result.tag \in {"undefined", "bytes", "null", "pos", "TypeError", "RangeError"}

\* ------------------------------------------------- reference definitions
\* the logical stream: the concatenation of the slices in insertion order
RECURSIVE Concat(_)
Concat(slices) ==
  IF slices = <<>> THEN <<>> ELSE Head(slices) \o Concat(Tail(slices))

\* bytes [from, to) of the logical stream
Range(from, to) == SubSeq(Concat(fields.slices), from + 1, to)

Bytes(b) == Result("bytes", b, 0)

Position(p) == Result("pos", <<>>, p)

\* logical position of the first byte of slice k (1-based k)
StartOf(slices, k) == SumLen(SubSeq(slices, 1, k - 1))

\* the positions p >= offset where pattern occurs in the logical stream
Occurrences(slices, pattern, offset) ==
  {p \in offset..(SumLen(slices) - Len(pattern)) :
     SubSeq(Concat(slices), p + 1, p + Len(pattern)) = pattern}

\* the occurrence at p lies inside one stored slice
InOneSlice(slices, p, n) ==
  \E k \in 1..Len(slices) :
    StartOf(slices, k) <= p /\ p + n <= StartOf(slices, k) + Len(slices[k])

SetMin(S) == CHOOSE x \in S : \A y \in S : x <= y

IsRead == op = "read" /\ args.length.isInteger /\ args.offset.isInteger

IsSearch == op = "search" /\ args.pattern.isUint8Array /\ args.offset.isInteger

\* ---------------------------------------------------------------- claims

\* C1: after any sequence of addSlice and addPayload calls, successful or
\* failed, length equals the sum of the lengths of the entries of slices.
C1_LengthIsSum == fields.length = SumLen(fields.slices)

\* C1 witness: an addPayload that failed after slices had been stored.
C1_Witness ==
  /\ op = "addPayload"
  /\ Thrown(result)
  /\ Len(fields.slices) >= 2
  /\ fields.length >= 2

\* C2: for 0 <= offset < totalLength, length >= 0 and
\* offset + length <= totalLength, read(length, offset) returns exactly the
\* bytes [offset, offset + length) of the concatenation of the slices.
C2_ReadInRange ==
  (/\ IsRead
   /\ 0 <= args.offset.n /\ args.offset.n < fields.length
   /\ args.length.n >= 0
   /\ args.offset.n + args.length.n <= fields.length)
  => result = Bytes(Range(args.offset.n, args.offset.n + args.length.n))

\* C3: for 0 <= offset < totalLength and offset + length > totalLength,
\* read(length, offset) returns, without raising, the totalLength - offset
\* bytes of the stream from offset on.
C3_ReadTruncated ==
  (/\ IsRead
   /\ 0 <= args.offset.n /\ args.offset.n < fields.length
   /\ args.offset.n + args.length.n > fields.length)
  => result = Bytes(Range(args.offset.n, fields.length))

\* C4: for offset >= totalLength and length >= 0, read(length, offset)
\* returns null and does not raise, also on the empty stream and on streams
\* with zero-length slices.
C4_ReadPastEndIsNull ==
  (/\ IsRead
   /\ args.offset.n >= fields.length
   /\ args.length.n >= 0)
  => result = Result("null", <<>>, 0)

\* C4 witness: a read at or past the end of a non-empty stream that holds a
\* zero-length slice, answered with null.
C4_Witness ==
  /\ IsRead
  /\ fields.length > 0
  /\ \E k \in 1..Len(fields.slices) : Len(fields.slices[k]) = 0
  /\ args.offset.n >= fields.length
  /\ args.length.n > 0
  /\ result.tag = "null"

\* C5: for a non-empty pattern and offset >= 0, search(pattern, offset)
\* returns p + pattern.length for the smallest p >= offset at which the
\* stream equals pattern byte for byte, and -1 when there is no such p.
C5_SearchFirstOccurrence ==
  (/\ IsSearch
   /\ Len(args.pattern.bytes) > 0
   /\ args.offset.n >= 0)
  => LET occ == Occurrences(fields.slices, args.pattern.bytes, args.offset.n)
     IN result = IF occ = {} THEN Position(NotFound)
                 ELSE Position(SetMin(occ) + Len(args.pattern.bytes))

\* C6: when a non-empty pattern occurs at or after offset only at positions
\* where it straddles two or more slices, search(pattern, offset) still
\* returns the end position of its first occurrence, not -1.
C6_SearchStraddling ==
  LET occ == Occurrences(fields.slices, args.pattern.bytes, args.offset.n)
  IN (/\ IsSearch
      /\ Len(args.pattern.bytes) > 0
      /\ args.offset.n >= 0
      /\ occ # {}
      /\ \A p \in occ : ~InOneSlice(fields.slices, p, Len(args.pattern.bytes)))
     => /\ result.tag = "pos"
        /\ result.pos # NotFound
        /\ result.pos = SetMin(occ) + Len(args.pattern.bytes)

\* C7: for every offset >= 0, search with an empty pattern returns offset.
C7_SearchEmptyPattern ==
  (/\ IsSearch
   /\ Len(args.pattern.bytes) = 0
   /\ args.offset.n >= 0)
  => result = Position(args.offset.n)

\* C8: whenever an addSlice or addPayload call raises, length and slices
\* are what they were before the call.
C8_FailedAddChangesNothing ==
  [][(op' \in {"addSlice", "addPayload"} /\ Thrown(result'))
       => fields' = fields]_vars

\* C9: read(length, offset) with a negative length or a negative offset
\* fails with an error instead of returning bytes or null, and leaves the
\* stream unchanged.
C9_ReadNegativeFails ==
  [][(/\ op' = "read"
      /\ args'.length.isInteger /\ args'.offset.isInteger
      /\ (args'.length.n < 0 \/ args'.offset.n < 0))
       => (Thrown(result') /\ fields' = fields)]_vars

\* C10: search(pattern, offset) with a non-empty pattern and offset >= 0
\* always returns a position or -1; it never raises.
C10_SearchNeverRaises ==
  (/\ IsSearch
   /\ Len(args.pattern.bytes) > 0
   /\ args.offset.n >= 0)
  => result.tag = "pos"

====
